---- MODULE Spec2Model ----
(***************************************************************************)
(* A model of raft's linewise matrix/vector engine                         *)
(* (cpp/include/raft/matrix/detail/linewise_op.cuh): the host side of      *)
(* MatrixLinewiseOp::run (width selection, alignment descriptor, grid      *)
(* sizing, kernel launches on one stream) and the device side (the         *)
(* threads of the main and boundary kernels of both strategies).           *)
(*                                                                         *)
(* Memory is a flat array of element slots; the byte address of slot s is  *)
(* s * sizeof(Type).  Matrix values are symbolic: a value records the      *)
(* index of the input element it stems from and the list of operator       *)
(* applications (each with the vector indices it consumed) it went         *)
(* through.  IdxType is a signed integer type (int), as in the unit tests. *)
(*                                                                         *)
(* Further sections model, over the same variables, the shared-memory      *)
(* staging of loadVec, stats::sum (stats/detail/sum.cuh) with the streams  *)
(* it runs on, the stream and event choreography of lstsqEig, the in-place *)
(* square transpose, and the compare-and-swap loops of myAtomicReduce,     *)
(* myAtomicMin and myAtomicMax (cuda_utils.cuh).                           *)
(***************************************************************************)
EXTENDS Integers, Sequences, FiniteSets, TLC

\* ------------------------------------------------------------ parameters

\* raft::WarpSize
WarpSize == 32
\* MatrixLinewiseOp<VecBytes = 16, BlockSize>: the widest load/store tried
MaxVecBytes == 16
\* BlockSize is a template parameter (a multiple of the warp size)
WarpsPerBlock == 1
BlockSize == WarpSize * WarpsPerBlock
\* OptimalSmOccupancy
OptimalSmOccupancy == 16
\* the device: cudaDevAttrMultiProcessorCount, cudaDevAttrMaxThreadsPerBlock
SmCount == 1
MaxThreadsPerBlock == 1024
\* the calls of the grid-sizing specification: up to GridSmCount multiprocessors,
\* rowLen in 1..GridMaxRowLen, nRows a power of two up to 2^GridRowsLog
GridSmCount == 2
GridMaxRowLen == 12
GridRowsLog == 15
\* sizeof(Type) of the instantiations modelled: float and double
TypeSizes == {4, 8}
\* the matrices modelled: rowLen in 1..MaxRowLen, nRows in 0..MaxRows
MaxRowLen == 3
MaxRows == 3
\* the number of broadcast vectors: 1..MaxVecs
MaxVecs == 2
\* the staging buffers of vectorRows: vectors 1..StagingVecs, rows of 1..StagingMaxRowLen
StagingVecs == 3
StagingMaxRowLen == 3
StagingRows == 8
\* the calls of the work-distribution specification: rowLen in
\* 1..StripeMaxRowLen, nRows up to StripeMaxRows
StripeMaxRowLen == 6
StripeMaxRows == 1024
\* the calls of the loadVec specification: rowLen in 0..LoadVecMaxRowLen
LoadVecMaxRowLen == 1
\* stats::detail::sum: TPB, ColsPerBlk and RowsPerThread of sum()
TPB == 256
ColsPerBlk == 32
RowsPerThread == 4
\* the matrices summed: D and N in {1, ColsPerBlk + SumExtra}
SumExtra == 1
\* lstsqEig: the handle's stream pool holds 0..LstsqPool streams
LstsqPool == 2
\* the in-place transpose: n in 0..TransposeMaxN; int has IntBits bits
TransposeMaxN == 3
IntBits == 32
\* myAtomicReduce: AtomicThreads concurrent calls on one address, values
\* 0..AtomicMaxVal
AtomicThreads == 2
AtomicMaxVal == 2

MaxLen == MaxRowLen * MaxRows

\* ------------------------------------------------------------ arithmetic

\* C++ integer division and remainder (truncation towards zero), b > 0
CDiv(a, b) == IF a >= 0 THEN a \div b ELSE -((-a) \div b)
CMod(a, b) == a - b * CDiv(a, b)

Min(a, b) == IF a <= b THEN a ELSE b
Max(a, b) == IF a >= b THEN a ELSE b

\* raft::ceildiv
ceildiv(a, b) == CDiv(a + b - 1, b)

\* raft::gcd
RECURSIVE gcd(_, _)
gcd(a, b) == IF b = 0 THEN a ELSE gcd(b, a % b)

\* raft::Pow2<W>: roundUp, roundDown, areSameAlignOffsets on byte addresses
roundUp(W, addr) == ((addr + W - 1) \div W) * W
roundDown(W, addr) == (addr \div W) * W
areSameAlignOffsets(W, a, b) == (a % W) = (b % W)

\* ------------------------------------------------------------ memory layout

\* element slots per 16-byte line
LineSlots(sz) == MaxVecBytes \div sz
\* the input matrix starts in the second line, the separate output buffer
\* in a line well after the end of the input
InBase(sz) == LineSlots(sz)
OutBase(sz) == LineSlots(sz) * (4 + (MaxLen \div LineSlots(sz)))
MemSlots == OutBase(4) + 2 * LineSlots(4) + MaxLen

Junk == [src |-> -1, ops |-> <<>>]

\* ------------------------------------------------------------ state

VARIABLES
  cfg,      \* the arguments of the run call and the placement of the buffers
  hostPc,   \* where the host is inside run
  sel,      \* the VecBytes selected by run and the number of halvings
  desc,     \* the alignment descriptor computed by matrixLinewiseVec{Cols,Rows}
  stream,   \* kernel launches enqueued on the stream and not yet started
  kern,     \* the kernel the stream is executing
  kno,      \* how many kernels the stream has started
  threads,  \* the working threads of kern: (block, thread) -> local state
  mem,      \* device memory, one value per element slot
  rd,       \* log: <<slot, kernel, block, thread>> of every matrix element read
  wr,       \* log: <<slot, kernel, block, thread>> of every matrix element written
  vecRd,    \* log: every index at which a broadcast vector was read
  wide,     \* log: byte address of every wide load/store of a main kernel
  block,    \* the block of a vectorRows kernel whose threads are inside loadVec
  lanes,    \* the threads of that block: threadIdx.x -> position inside loadVec
  shm       \* the shared-memory staging buffer of that block

vars == <<cfg, hostPc, sel, desc, stream, kern, kno, threads, mem, rd, wr, vecRd, wide, block, lanes, shm>>

inSlot == InBase(cfg.sz) + cfg.inOff
outSlot == IF cfg.inplace THEN inSlot ELSE OutBase(cfg.sz) + cfg.outOff
inAddr == inSlot * cfg.sz
outAddr == outSlot * cfg.sz
totalLen == cfg.rowLen * cfg.nRows

Configs ==
  { c \in [sz : TypeSizes, inOff : 0..3, outOff : 0..3, inplace : BOOLEAN,
           rowLen : 1..MaxRowLen, nRows : 0..MaxRows, alongLines : BOOLEAN,
           op : {"op", "id"}, nVecs : 1..MaxVecs, smCount : {SmCount},
           maxBlockSize : {MaxThreadsPerBlock}] :
      /\ c.inOff < LineSlots(c.sz)
      /\ c.outOff < LineSlots(c.sz)
      /\ c.inplace => c.outOff = c.inOff }

NoKernel == [kind |-> "none"]
NoBlock == [kind |-> "none"]
NoDesc == [totalLen |-> 0, alignedOff |-> 0, alignedEnd |-> 0, alignedLen |-> 0]

InitMem(c) ==
  [s \in 0..(MemSlots - 1) |->
     IF s >= InBase(c.sz) + c.inOff /\ s < InBase(c.sz) + c.inOff + c.rowLen * c.nRows
     THEN [src |-> s - (InBase(c.sz) + c.inOff), ops |-> <<>>]
     ELSE Junk]

Init ==
  /\ cfg \in Configs
  /\ hostPc = "entry"
  /\ sel = [vecBytes |-> 0, halvings |-> 0]
  /\ desc = NoDesc
  /\ stream = <<>>
  /\ kern = NoKernel
  /\ kno = 0
  /\ threads = <<>>
  /\ mem = InitMem(cfg)
  /\ rd = {}
  /\ wr = {}
  /\ vecRd = {}
  /\ wide = {}
  /\ block = NoBlock
  /\ lanes = <<>>
  /\ shm = <<>>

\* ------------------------------------------------------------ host: run

\* a run that falls back to the scalar width at the first mismatch
SelectVecBytesNarrowest(W, sz, a, b, n) ==
  IF W > sz /\ ~areSameAlignOffsets(W, a, b)
  THEN [vecBytes |-> sz, halvings |-> 1]
  ELSE [vecBytes |-> W, halvings |-> n]

\* MatrixLinewiseOp<VecBytes>::run: halve VecBytes while it is wider than the
\* element and in, out differ in their offsets modulo VecBytes
RECURSIVE SelectVecBytes(_, _, _, _, _)
SelectVecBytes(W, sz, a, b, n) ==
  IF W > sz /\ ~areSameAlignOffsets(W, a, b)
  THEN SelectVecBytes(Max(W \div 2, sz), sz, a, b, n + 1)
  ELSE [vecBytes |-> W, halvings |-> n]

\* the first lines of matrixLinewiseVecCols / matrixLinewiseVecRows
AlignDesc(W, sz, a, rowLen, nRows) ==
  LET tl == rowLen * nRows
      alignedStart == roundUp(W, a)
      off == CDiv(alignedStart - a, sz)
      end == CDiv(roundDown(W, a + tl * sz) - a, sz)
  IN [totalLen |-> tl, alignedOff |-> off, alignedEnd |-> end, alignedLen |-> end - off]

Run ==
  /\ hostPc = "entry"
  /\ sel' = SelectVecBytes(MaxVecBytes, cfg.sz, inAddr, outAddr, 0)
  /\ desc' = AlignDesc(sel'.vecBytes, cfg.sz, inAddr, cfg.rowLen, cfg.nRows)
  /\ hostPc' = "main"
  /\ UNCHANGED <<cfg, stream, kern, kno, threads, mem, rd, wr, vecRd, wide, block, lanes, shm>>


\* getOptimalGridSize<BlockSize>()
getOptimalGridSize(bs, smCount, maxBlockSize) ==
  OptimalSmOccupancy * CDiv(smCount * maxBlockSize, bs)

\* matrixLinewiseVecCols: the grid of the main kernel
ColsGrid(alignedLen, ve, bs, occupy) == Min(ceildiv(alignedLen, bs * ve), occupy)

\* an elemsPerThread that rounds the share of a thread down
ColsElemsPerThreadFloor(alignedLen, ve, bs, gs) == Max(CDiv(alignedLen, gs * ve * bs), 1) * ve

\* matrixLinewiseVecCols: elemsPerThread
ColsElemsPerThread(alignedLen, ve, bs, gs) == ceildiv(alignedLen, gs * ve * bs) * ve

\* a grid raised to the occupancy target without rounding it to the stripe
RowsGridNoRounding(tl, rowLen, ve, bs, occupy) == Min(ceildiv(tl, bs * ve), occupy)

\* matrixLinewiseVecRows: the grid of the main kernel
RowsGrid(tl, rowLen, ve, bs, occupy) ==
  LET block_work_size == bs * ve
      expected_grid_size == CDiv(rowLen, gcd(block_work_size, rowLen))
  IN Min(ceildiv(tl, block_work_size),
         ceildiv(occupy, expected_grid_size) * expected_grid_size)

\* std::max(std::size_t(raft::WarpSize), VecBytes): the block of a boundary kernel
MaxOffset(vecBytes) == Max(WarpSize, vecBytes)

MainKernel ==
  LET ve == sel.vecBytes \div cfg.sz
      occupy == getOptimalGridSize(BlockSize, cfg.smCount, cfg.maxBlockSize)
  IN IF cfg.alongLines
     THEN [kind |-> "rowsMain", ve |-> ve, bs |-> BlockSize,
           grid |-> RowsGrid(desc.totalLen, cfg.rowLen, ve, BlockSize, occupy),
           arrOffset |-> desc.alignedOff, arrTail |-> 0, rowLen |-> cfg.rowLen,
           len |-> desc.alignedLen, ept |-> 0]
     ELSE LET gs == ColsGrid(desc.alignedLen, ve, BlockSize, occupy)
          IN [kind |-> "colsMain", ve |-> ve, bs |-> BlockSize, grid |-> gs,
              arrOffset |-> desc.alignedOff, arrTail |-> 0, rowLen |-> cfg.rowLen,
              len |-> desc.alignedLen,
              ept |-> ColsElemsPerThread(desc.alignedLen, ve, BlockSize, gs)]

TailKernel ==
  [kind |-> IF cfg.alongLines THEN "rowsTail" ELSE "colsTail", ve |-> 1,
   bs |-> MaxOffset(sel.vecBytes), grid |-> 2,
   arrOffset |-> desc.alignedOff, arrTail |-> desc.alignedEnd, rowLen |-> cfg.rowLen,
   len |-> desc.totalLen, ept |-> 0]

\* if (alignedLen > 0) <<<gs, bs, 0, stream>>>
LaunchMain ==
  /\ hostPc = "main"
  /\ stream' = IF desc.alignedLen > 0 THEN Append(stream, MainKernel) ELSE stream
  /\ hostPc' = "tail"
  /\ UNCHANGED <<cfg, sel, desc, kern, kno, threads, mem, rd, wr, vecRd, wide, block, lanes, shm>>

\* a run that launches one boundary kernel for the head and one for the tail
LaunchTailPerBlock ==
  /\ hostPc = "tail"
  /\ stream' = IF desc.alignedLen < desc.totalLen
               THEN stream \o <<TailKernel, TailKernel>> ELSE stream
  /\ hostPc' = "returned"
  /\ UNCHANGED <<cfg, sel, desc, kern, kno, threads, mem, rd, wr, vecRd, wide, block, lanes, shm>>

\* a run that puts the boundary kernel ahead of everything waiting in the stream
LaunchTailFirst ==
  /\ hostPc = "tail"
  /\ stream' = IF desc.alignedLen < desc.totalLen THEN <<TailKernel>> \o stream ELSE stream
  /\ hostPc' = "returned"
  /\ UNCHANGED <<cfg, sel, desc, kern, kno, threads, mem, rd, wr, vecRd, wide, block, lanes, shm>>

\* if (alignedLen < totalLen) <<<dim3(2, 1, 1), dim3(MaxOffset, 1, 1), 0, stream>>>
LaunchTail ==
  /\ hostPc = "tail"
  /\ stream' = IF desc.alignedLen < desc.totalLen THEN Append(stream, TailKernel) ELSE stream
  /\ hostPc' = "returned"
  /\ UNCHANGED <<cfg, sel, desc, kern, kno, threads, mem, rd, wr, vecRd, wide, block, lanes, shm>>


\* ------------------------------------------------------------ host: launch errors

\* RAFT_CUDA_TRY(call): a status other than cudaSuccess ends run at that check
\* (the error leaves run as a failure, not as a return value); otherwise run
\* goes on
RAFT_CUDA_TRY(status, failed, next) == IF status = "cudaSuccess" THEN next ELSE failed

\* the statuses a device query or a launch can report besides cudaSuccess
CudaErrors == {"cudaErrorInvalidDevice", "cudaErrorLaunchOutOfResources"}

\* where run is after a failed check
Aborted == {"abortedQuery", "abortedMain", "abortedTail"}

\* getOptimalGridSize: RAFT_CUDA_TRY(cudaGetDevice / cudaDeviceGetAttribute),
\* called once a main kernel is to be launched
QueryFails ==
  /\ hostPc = "main"
  /\ desc.alignedLen > 0
  /\ \E status \in CudaErrors : hostPc' = RAFT_CUDA_TRY(status, "abortedQuery", "main")
  /\ UNCHANGED <<cfg, sel, desc, stream, kern, kno, threads, mem, rd, wr, vecRd, wide, block, lanes, shm>>

\* a run that launches the main kernel again after a failed launch
LaunchMainFailsRetried ==
  /\ hostPc = "main"
  /\ desc.alignedLen > 0
  /\ \E status \in CudaErrors : hostPc' = RAFT_CUDA_TRY(status, "abortedMain", "tail")
  /\ stream' = Append(stream, MainKernel)
  /\ UNCHANGED <<cfg, sel, desc, kern, kno, threads, mem, rd, wr, vecRd, wide, block, lanes, shm>>

\* the main launch is rejected, so nothing is enqueued:
\* <<<gs, bs, 0, stream>>>; RAFT_CUDA_TRY(cudaPeekAtLastError())
LaunchMainFails ==
  /\ hostPc = "main"
  /\ desc.alignedLen > 0
  /\ \E status \in CudaErrors : hostPc' = RAFT_CUDA_TRY(status, "abortedMain", "tail")
  /\ UNCHANGED <<cfg, sel, desc, stream, kern, kno, threads, mem, rd, wr, vecRd, wide, block, lanes, shm>>

\* the boundary launch is rejected, after the main kernel (if any) was enqueued:
\* <<<dim3(2, 1, 1), dim3(MaxOffset, 1, 1), 0, stream>>>; RAFT_CUDA_TRY(cudaPeekAtLastError())
LaunchTailFails ==
  /\ hostPc = "tail"
  /\ desc.alignedLen < desc.totalLen
  /\ \E status \in CudaErrors : hostPc' = RAFT_CUDA_TRY(status, "abortedTail", "returned")
  /\ UNCHANGED <<cfg, sel, desc, stream, kern, kno, threads, mem, rd, wr, vecRd, wide, block, lanes, shm>>

\* ------------------------------------------------------------ device: threads

\* an operator call with the matrix element and the vector element swapped
ApplyOpSwapped(x, a) ==
  IF cfg.op = "id" THEN [src |-> a[1], ops |-> <<>>]
  ELSE [src |-> x.src, ops |-> Append(x.ops, a)]

\* the operator supplied by the caller; "id" is op(a, b...) = a
ApplyOp(x, a) ==
  IF cfg.op = "id" THEN x ELSE [src |-> x.src, ops |-> Append(x.ops, a)]

\* ((args[l] = vecs[rowDiv], l++), ...): every vector is read at rowDiv
ReadArgs(rowDiv) == [l \in 1..cfg.nVecs |-> rowDiv]

\* an index wrapped at most once
WrapIndexOnce(j, rowLen) == IF j >= rowLen THEN j - rowLen ELSE j

\* Linewise::loadVec: while (j >= rowLen) j -= rowLen
RECURSIVE WrapIndex(_, _)
WrapIndex(j, rowLen) == IF j >= rowLen THEN WrapIndex(j - rowLen, rowLen) ELSE j

\* Linewise::loadVec, scatter phase: the vector index thread tid stores into
\* shm[tid + n * bs] in its n-th iteration
RECURSIVE LoadVecIndex(_, _, _, _, _)
LoadVecIndex(blockOffset, tid, n, bs, rowLen) ==
  IF n = 0 THEN WrapIndex(blockOffset + tid, rowLen)
  ELSE WrapIndex(LoadVecIndex(blockOffset, tid, n - 1, bs, rowLen) + bs, rowLen)

\* Linewise::loadVec, gather phase: thread tid gets shm[tid * ve .. tid * ve + ve - 1]
loadVec(blockOffset, tid, ve, bs, rowLen) ==
  [e \in 1..ve |->
     LET k == tid * ve + (e - 1)
     IN LoadVecIndex(blockOffset, k % bs, k \div bs, bs, rowLen)]

\* every vector index a block reads in loadVec
LoadVecReads(blockOffset, ve, bs, rowLen) ==
  { LoadVecIndex(blockOffset, k % bs, k \div bs, bs, rowLen) : k \in 0..(ve * bs - 1) }

\* a main kernel that forgets the unaligned head in its block offset
RowsBlockOffsetNoArrOffset(k, blk) ==
  IF k.kind = "rowsMain" THEN CMod(k.bs * k.ve * blk, k.rowLen)
  ELSE IF blk = 0 THEN 0 ELSE CMod(k.arrTail, k.rowLen)

\* matrixLinewiseVecRowsMainKernel / matrixLinewiseVecRowsTailKernel: blockOffset
RowsBlockOffset(k, blk) ==
  IF k.kind = "rowsMain" THEN CMod(k.arrOffset + k.bs * k.ve * blk, k.rowLen)
  ELSE IF blk = 0 THEN 0 ELSE CMod(k.arrTail, k.rowLen)

\* a main kernel that forgets the unaligned head when placing its threads
ColsMainStartNoOffset(k, blk, tid) ==
  LET t == tid % WarpSize
  IN k.ept * (blk * k.bs + tid - t) + t * k.ve

\* matrixLinewiseVecColsMainKernel: the first element of a thread
ColsMainStart(k, blk, tid) ==
  LET t == tid % WarpSize
  IN k.arrOffset + k.ept * (blk * k.bs + tid - t) + t * k.ve

ColsMainThread(k, blk, tid) ==
  LET t == ColsMainStart(k, blk, tid)
  IN [pc |-> "load", p |-> t, end |-> Min(t + k.ept * WarpSize, k.len),
      stride |-> WarpSize * k.ve, rowDiv |-> CDiv(t, k.rowLen), rowMod |-> CMod(t, k.rowLen),
      update |-> TRUE, args |-> <<>>, v |-> <<>>]

\* matrixLinewiseVecColsTailKernel
ColsTailThread(k, blk, tid) ==
  LET threadOffset == IF blk = 0 THEN tid ELSE k.arrTail + tid
      elemsPerWarp == IF blk = 0
                      THEN (IF threadOffset < k.arrOffset THEN 1 ELSE 0)
                      ELSE (IF threadOffset < k.len THEN 1 ELSE 0)
  IN [pc |-> "load", p |-> threadOffset, end |-> threadOffset + elemsPerWarp,
      stride |-> WarpSize, rowDiv |-> CDiv(threadOffset, k.rowLen),
      rowMod |-> CMod(threadOffset, k.rowLen),
      update |-> TRUE, args |-> <<>>, v |-> <<>>]

\* matrixLinewiseVecRowsMainKernel + Linewise::vectorRows: p is the element
\* offset (from in) of the chunk in + i, the loop runs while i < len / VecElems
RowsMainThread(k, blk, tid) ==
  LET i == tid + blk * k.bs
      d == k.bs * k.grid
  IN [pc |-> "load", p |-> k.arrOffset + i * k.ve,
      end |-> k.arrOffset + (k.len \div k.ve) * k.ve,
      stride |-> d * k.ve, rowDiv |-> 0, rowMod |-> 0, update |-> FALSE,
      args |-> loadVec(RowsBlockOffset(k, blk), tid, k.ve, k.bs, k.rowLen), v |-> <<>>]

\* matrixLinewiseVecRowsTailKernel + Linewise::vectorRows (VecElems = 1)
RowsTailThread(k, blk, tid) ==
  LET i == tid + blk * k.bs
      d == k.bs * k.grid
      base == IF blk = 0 THEN 0 ELSE k.arrTail - k.bs
      len == IF blk = 0 THEN k.arrOffset ELSE k.len - k.arrTail + k.bs
  IN [pc |-> "load", p |-> base + i, end |-> base + len,
      stride |-> d, rowDiv |-> 0, rowMod |-> 0, update |-> FALSE,
      args |-> loadVec(RowsBlockOffset(k, blk), tid, 1, k.bs, k.rowLen), v |-> <<>>]

ThreadInit(k, blk, tid) ==
  CASE k.kind = "colsMain" -> ColsMainThread(k, blk, tid)
    [] k.kind = "colsTail" -> ColsTailThread(k, blk, tid)
    [] k.kind = "rowsMain" -> RowsMainThread(k, blk, tid)
    [] k.kind = "rowsTail" -> RowsTailThread(k, blk, tid)

IsRows(k) == k.kind \in {"rowsMain", "rowsTail"}
IsMain(k) == k.kind \in {"colsMain", "rowsMain"}

\* the threads whose loop body runs at least once
Working(k) ==
  { t \in (0..(k.grid - 1)) \X (0..(k.bs - 1)) :
      LET th == ThreadInit(k, t[1], t[2]) IN th.p < th.end }

AllDone == \A t \in DOMAIN threads : threads[t].pc = "done"

\* the stream starts its next kernel once the previous one has finished;
\* the blocks of a vectorRows kernel stage their vector chunks (loadVec)
KernelBegin ==
  /\ stream /= <<>>
  /\ AllDone
  /\ LET k == Head(stream)
     IN /\ kern' = k
        /\ threads' = [t \in Working(k) |-> ThreadInit(k, t[1], t[2])]
        /\ vecRd' = IF IsRows(k)
                    THEN vecRd \cup UNION { LoadVecReads(RowsBlockOffset(k, blk), k.ve, k.bs, k.rowLen) :
                                              blk \in 0..(k.grid - 1) }
                    ELSE vecRd
  /\ stream' = Tail(stream)
  /\ kno' = kno + 1
  /\ UNCHANGED <<cfg, hostPc, sel, desc, mem, rd, wr, wide, block, lanes, shm>>

\* the element offsets a thread has still to load and store
Foot(th, ve) ==
  IF th.p >= th.end THEN {}
  ELSE { th.p + n * th.stride + e : n \in 0..((th.end - 1 - th.p) \div th.stride),
                                    e \in 0..(ve - 1) }

Unfinished == { t \in DOMAIN threads : threads[t].pc /= "done" }

\* The threads of a kernel run concurrently, in any order.  A thread none of
\* whose elements any other unfinished thread touches is independent: its
\* steps commute with every step of the other threads, so it is enough to run
\* the independent threads in index order; the threads that share elements
\* with another thread are interleaved in every possible way.
Runnable ==
  LET un == Unfinished
      foot == [t \in un |-> Foot(threads[t], kern.ve)]
      free == { t \in un : \A u \in un \ {t} : foot[t] \cap foot[u] = {} }
  IN IF free = {} THEN un
     ELSE { t \in free : \A u \in free : t[1] * kern.bs + t[2] <= u[1] * kern.bs + u[2] }

\* v.val.internal = __ldcv(in): one (wide) load of VecElems elements
Load(t) ==
  LET th == threads[t]
  IN /\ th.pc = "load"
     /\ threads' = [threads EXCEPT ![t].pc = "store",
                                   ![t].v = [e \in 1..kern.ve |-> mem[inSlot + th.p + e - 1]]]
     /\ rd' = rd \cup { <<inSlot + th.p + e, kno, t[1], t[2]>> : e \in 0..(kern.ve - 1) }
     /\ wide' = IF IsMain(kern) THEN wide \cup {(inSlot + th.p) * cfg.sz} ELSE wide
     /\ UNCHANGED <<cfg, hostPc, sel, desc, stream, kern, kno, mem, wr, vecRd, block, lanes, shm>>

\* a wrap that moves on by one row at most
WrapRowOnce(rowDiv, rowMod, update, rowLen) ==
  IF rowMod >= rowLen THEN [rowDiv |-> rowDiv + 1, rowMod |-> rowMod - rowLen, update |-> TRUE]
  ELSE [rowDiv |-> rowDiv, rowMod |-> rowMod, update |-> update]

\* Linewise::vectorCols: while (rowMod >= rowLen) { rowMod -= rowLen; rowDiv++; update = true; }
RECURSIVE WrapRow(_, _, _, _)
WrapRow(rowDiv, rowMod, update, rowLen) ==
  IF rowMod >= rowLen THEN WrapRow(rowDiv + 1, rowMod - rowLen, TRUE, rowLen)
  ELSE [rowDiv |-> rowDiv, rowMod |-> rowMod, update |-> update]

\* Linewise::vectorCols: for (int k = 0; k < VecElems; k++, rowMod++) { ... }
\* st = [rowDiv, rowMod, args, w, reads, track]; track records the pair and the
\* cached args with which op is applied to each element
RECURSIVE ColsElems(_, _, _, _, _)
ColsElems(k, ve, rowLen, v, st) ==
  IF k > ve THEN st
  ELSE LET cross == st.rowMod = rowLen
           rowMod == IF cross THEN 0 ELSE st.rowMod
           rowDiv == IF cross THEN st.rowDiv + 1 ELSE st.rowDiv
           args == IF cross THEN ReadArgs(rowDiv) ELSE st.args
       IN ColsElems(k + 1, ve, rowLen, v,
                    [rowDiv |-> rowDiv, rowMod |-> rowMod + 1, args |-> args,
                     w |-> Append(st.w, ApplyOp(v[k], args)),
                     reads |-> IF cross THEN st.reads \cup {rowDiv} ELSE st.reads,
                     track |-> Append(st.track, [rowDiv |-> rowDiv, rowMod |-> rowMod,
                                                 args |-> args])])

\* one iteration of the loop of Linewise::vectorCols after the load
vectorColsBody(th, ve, rowLen) ==
  LET a == WrapRow(th.rowDiv, th.rowMod, th.update, rowLen)
      args0 == IF a.update THEN ReadArgs(a.rowDiv) ELSE th.args
      reads0 == IF a.update THEN {a.rowDiv} ELSE {}
  IN ColsElems(1, ve, rowLen, th.v,
               [rowDiv |-> a.rowDiv, rowMod |-> a.rowMod, args |-> args0, w |-> <<>>,
                reads |-> reads0, track |-> <<>>])

\* one iteration of the loop of Linewise::vectorRows after the load
vectorRowsBody(th, ve) ==
  [rowDiv |-> 0, rowMod |-> 0, args |-> th.args,
   w |-> [e \in 1..ve |-> ApplyOp(th.v[e], [l \in 1..cfg.nVecs |-> th.args[e]])],
   reads |-> {}]

\* the slot of out a thread stores the e-th element of its chunk at
StoreSlot(p, e) == outSlot + p + e

\* the loop increment of vectorCols (in, out += AlignWarp::Value, rowMod +=
\* warpPad) and of vectorRows (i += d), after an iteration with result r
LoopIncrement(th, r, ve) ==
  LET p2 == th.p + th.stride
      warpPad == (WarpSize - 1) * ve
  IN [pc |-> IF p2 < th.end THEN "load" ELSE "done", p |-> p2,
      end |-> th.end, stride |-> th.stride,
      rowDiv |-> r.rowDiv, rowMod |-> r.rowMod + warpPad,
      update |-> FALSE, args |-> r.args, v |-> th.v]

\* *out = w.val.internal / __stwt(out + i, v.val.internal), and the loop increment
Store(t) ==
  LET th == threads[t]
      r == IF IsRows(kern) THEN vectorRowsBody(th, kern.ve)
           ELSE vectorColsBody(th, kern.ve, kern.rowLen)
  IN /\ th.pc = "store"
     /\ mem' = [s \in DOMAIN mem |->
                  IF s >= StoreSlot(th.p, 0) /\ s < StoreSlot(th.p, kern.ve)
                  THEN r.w[s - StoreSlot(th.p, 0) + 1] ELSE mem[s]]
     /\ wr' = wr \cup { <<StoreSlot(th.p, e), kno, t[1], t[2]>> : e \in 0..(kern.ve - 1) }
     /\ vecRd' = vecRd \cup r.reads
     /\ wide' = IF IsMain(kern) THEN wide \cup {StoreSlot(th.p, 0) * cfg.sz} ELSE wide
     /\ threads' = [threads EXCEPT ![t] = LoopIncrement(th, r, kern.ve)]
     /\ UNCHANGED <<cfg, hostPc, sel, desc, stream, kern, kno, rd, block, lanes, shm>>

Step == \E t \in Runnable : Load(t) \/ Store(t)

Next == Run \/ LaunchMain \/ LaunchTail \/ KernelBegin \/ Step

Spec == Init /\ [][Next]_vars

\* ------------------------------------------------------------ launch errors
\* run with device queries and launches that can fail, on separate buffers.

ErrConfigs == { c \in Configs : ~c.inplace /\ c.op = "op" /\ c.nVecs = 1 /\ c.nRows > 0 }

InitErr ==
  /\ cfg \in ErrConfigs
  /\ hostPc = "entry"
  /\ sel = [vecBytes |-> 0, halvings |-> 0]
  /\ desc = NoDesc
  /\ stream = <<>>
  /\ kern = NoKernel
  /\ kno = 0
  /\ threads = <<>>
  /\ mem = InitMem(cfg)
  /\ rd = {}
  /\ wr = {}
  /\ vecRd = {}
  /\ wide = {}
  /\ block = NoBlock
  /\ lanes = <<>>
  /\ shm = <<>>

NextErr == Next \/ QueryFails \/ LaunchMainFails \/ LaunchTailFails

SpecErr == InitErr /\ [][NextErr]_vars

\* ------------------------------------------------------------ grid sizing
\* The host side of run alone, on matrices too large to execute thread by
\* thread: the kernels are enqueued and never started.

RECURSIVE TwoTo(_)
TwoTo(n) == IF n = 0 THEN 1 ELSE 2 * TwoTo(n - 1)

GridConfigs ==
  { c \in [sz : TypeSizes, inOff : 0..3, outOff : 0..3, inplace : {FALSE},
           rowLen : 1..GridMaxRowLen, nRows : { TwoTo(n) : n \in 0..GridRowsLog },
           alongLines : BOOLEAN, op : {"op"}, nVecs : {1}, smCount : 1..GridSmCount,
           maxBlockSize : {MaxThreadsPerBlock}] :
      /\ c.inOff < LineSlots(c.sz)
      /\ c.outOff < LineSlots(c.sz) }

InitGrid ==
  /\ cfg \in GridConfigs
  /\ hostPc = "entry"
  /\ sel = [vecBytes |-> 0, halvings |-> 0]
  /\ desc = NoDesc
  /\ stream = <<>>
  /\ kern = NoKernel
  /\ kno = 0
  /\ threads = <<>>
  /\ mem = <<>>
  /\ rd = {}
  /\ wr = {}
  /\ vecRd = {}
  /\ wide = {}
  /\ block = NoBlock
  /\ lanes = <<>>
  /\ shm = <<>>

NextGrid == Run \/ LaunchMain \/ LaunchTail

SpecGrid == InitGrid /\ [][NextGrid]_vars

\* ------------------------------------------------------------ work distribution
\* The host side of run on a device whose cudaDevAttrMaxThreadsPerBlock equals
\* BlockSize, which gives the smallest occupancy target (OptimalSmOccupancy
\* blocks per multiprocessor), and on matrices of several grid passes; the
\* loops of the enqueued kernels' threads are followed as functions.

StripeConfigs ==
  { c \in [sz : TypeSizes, inOff : 0..3, outOff : 0..3, inplace : {FALSE},
           rowLen : 1..StripeMaxRowLen,
           nRows : { StripeMaxRows \div TwoTo(3 * n) : n \in 0..3 },
           alongLines : BOOLEAN, op : {"op"}, nVecs : {1}, smCount : {SmCount},
           maxBlockSize : {BlockSize}] :
      /\ c.inOff < LineSlots(c.sz)
      /\ c.outOff < LineSlots(c.sz) }

InitStripe ==
  /\ cfg \in StripeConfigs
  /\ hostPc = "entry"
  /\ sel = [vecBytes |-> 0, halvings |-> 0]
  /\ desc = NoDesc
  /\ stream = <<>>
  /\ kern = NoKernel
  /\ kno = 0
  /\ threads = <<>>
  /\ mem = <<>>
  /\ rd = {}
  /\ wr = {}
  /\ vecRd = {}
  /\ wide = {}
  /\ block = NoBlock
  /\ lanes = <<>>
  /\ shm = <<>>

SpecStripe == InitStripe /\ [][NextGrid]_vars

\* the element offsets (from in) at which the loop of a thread loads a chunk
ChunkStarts(th) ==
  IF th.p >= th.end THEN {}
  ELSE { th.p + n * th.stride : n \in 0..((th.end - 1 - th.p) \div th.stride) }

\* Linewise::vectorCols followed from thread state th to the end of its loop:
\* for every element the loop applies op to, its offset p and the tracked
\* pair and cached args of that application
RECURSIVE ColsLoop(_, _, _)
ColsLoop(th, ve, rowLen) ==
  IF th.p >= th.end THEN {}
  ELSE LET r == vectorColsBody(th, ve, rowLen)
       IN { <<th.p + e - 1, r.track[e]>> : e \in 1..ve }
             \cup ColsLoop(LoopIncrement(th, r, ve), ve, rowLen)

\* ------------------------------------------------------------ loadVec
\* The vectorRows strategy with rowLen >= 0, and one block of each kernel it
\* enqueues followed thread by thread through Linewise::loadVec: the scatter
\* loop with its index wrap loop, the block barrier and the gather, once per
\* vector argument.

LoadVecConfigs ==
  { c \in [sz : TypeSizes, inOff : 0..3, outOff : 0..3, inplace : {FALSE},
           rowLen : 0..LoadVecMaxRowLen, nRows : {0, MaxRows}, alongLines : {TRUE},
           op : {"op"}, nVecs : {1}, smCount : {SmCount},
           maxBlockSize : {MaxThreadsPerBlock}] :
      /\ c.inOff < LineSlots(c.sz)
      /\ c.outOff \in {0, c.inOff} }

InitLoadVec ==
  /\ cfg \in LoadVecConfigs
  /\ hostPc = "entry"
  /\ sel = [vecBytes |-> 0, halvings |-> 0]
  /\ desc = NoDesc
  /\ stream = <<>>
  /\ kern = NoKernel
  /\ kno = 0
  /\ threads = <<>>
  /\ mem = <<>>
  /\ rd = {}
  /\ wr = {}
  /\ vecRd = {}
  /\ wide = {}
  /\ block = NoBlock
  /\ lanes = <<>>
  /\ shm = <<>>

\* a shared-memory slot nothing has been stored in
Unwritten == [vec |-> 0, idx |-> 0]

\* x % rowLen with rowLen = 0 is undefined: the device yields some value
UndefinedOffsets == {-1, 0, 1}

\* blockOffset as the kernels compute it; only block 0 of the boundary kernel
\* needs no division by rowLen
RowsBlockOffsets(k, blk) ==
  IF k.rowLen /= 0 \/ (k.kind = "rowsTail" /\ blk = 0)
  THEN {RowsBlockOffset(k, blk)} ELSE UndefinedOffsets

\* while (j >= rowLen) j -= rowLen; never ends when rowLen = 0 <= j.  An endless
\* loop without side effects is undefined behaviour: the build either keeps
\* the loop or has assumed that it ends and goes on with j as it is.  With
\* rowLen > 0 the two builds do not differ.
Builds(rowLen) == IF rowLen > 0 THEN {"loops"} ELSE {"loops", "assumesProgress"}

\* one staging buffer for every vector
WorkOffsetSingle(c, workSize) == 0

\* workOffset ^= workSize before the c-th loadVec call: shm + workOffset
WorkOffset(c, workSize) == ((c - 1) % 2) * workSize

\* Type shm[workSize * ((sizeof...(Vecs)) > 1 ? 2 : 1)]
ShmSlots(workSize, nVecs) == workSize * (IF nVecs > 1 THEN 2 ELSE 1)

\* loadVec entered for the c-th vector: j = blockOffset + threadIdx.x, k = threadIdx.x
LaneEnter(blockOffset, tid, c, out) ==
  [pc |-> "scatter", call |-> c, k |-> tid, j |-> blockOffset + tid, out |-> out]

LanesReturned == \A t \in DOMAIN lanes : lanes[t].pc = "returned"

\* the stream starts its next kernel; blk is one of its blocks
BlockBegin ==
  /\ stream /= <<>>
  /\ LanesReturned
  /\ LET k == Head(stream)
     IN \E blk \in 0..(k.grid - 1) : \E off \in RowsBlockOffsets(k, blk) :
        \E build \in Builds(k.rowLen) : \E first \in {"lowest", "highest"} :
          /\ block' = [kind |-> k.kind, blk |-> blk, blockOffset |-> off, ve |-> k.ve,
                       bs |-> k.bs, rowLen |-> k.rowLen, workSize |-> k.ve * k.bs,
                       build |-> build, first |-> first]
          /\ lanes' = [tid \in 0..(k.bs - 1) |-> LaneEnter(off, tid, 1, <<>>)]
          /\ shm' = [x \in 0..(ShmSlots(k.ve * k.bs, cfg.nVecs) - 1) |-> Unwritten]
  /\ stream' = Tail(stream)
  /\ kno' = kno + 1
  /\ UNCHANGED <<cfg, hostPc, sel, desc, kern, threads, mem, rd, wr, vecRd, wide>>

\* while (j >= rowLen) j -= rowLen; comes to an end
WrapEnds(j, rowLen) == rowLen > 0 \/ j < rowLen

\* one iteration of the scatter loop: shm[k] = p[j]; k += BlockSize, j += BlockSize
LvScatter(t) ==
  LET l == lanes[t]
      j == WrapIndex(l.j, block.rowLen)
  IN /\ l.pc = "scatter"
     /\ l.k < block.workSize
     /\ WrapEnds(l.j, block.rowLen)
     /\ shm' = [shm EXCEPT ![WorkOffset(l.call, block.workSize) + l.k] =
                              [vec |-> l.call, idx |-> j]]
     /\ lanes' = [lanes EXCEPT ![t].k = l.k + block.bs, ![t].j = j + block.bs]
     /\ UNCHANGED <<cfg, hostPc, sel, desc, stream, kern, kno, threads, mem, rd, wr, vecRd,
                    wide, block>>

\* while (j >= rowLen) j -= rowLen; with rowLen = 0 and j >= 0: the thread
\* stays in the loop for ever
LvSpin(t) ==
  LET l == lanes[t]
  IN /\ l.pc = "scatter"
     /\ l.k < block.workSize
     /\ ~WrapEnds(l.j, block.rowLen)
     /\ block.build = "loops"
     /\ lanes' = [lanes EXCEPT ![t].pc = "spin"]
     /\ UNCHANGED <<cfg, hostPc, sel, desc, stream, kern, kno, threads, mem, rd, wr, vecRd,
                    wide, block, shm>>

\* the same loop in the build that assumed it ends
LvWrapAssumedFinite(t) ==
  LET l == lanes[t]
  IN /\ l.pc = "scatter"
     /\ l.k < block.workSize
     /\ ~WrapEnds(l.j, block.rowLen)
     /\ block.build = "assumesProgress"
     /\ shm' = [shm EXCEPT ![WorkOffset(l.call, block.workSize) + l.k] =
                              [vec |-> l.call, idx |-> l.j]]
     /\ lanes' = [lanes EXCEPT ![t].k = l.k + block.bs, ![t].j = l.j + block.bs]
     /\ UNCHANGED <<cfg, hostPc, sel, desc, stream, kern, kno, threads, mem, rd, wr, vecRd,
                    wide, block>>

\* the scatter loop is over: the thread arrives at __syncthreads()
LvArrive(t) ==
  LET l == lanes[t]
  IN /\ l.pc = "scatter"
     /\ l.k >= block.workSize
     /\ lanes' = [lanes EXCEPT ![t].pc = "barrier"]
     /\ UNCHANGED <<cfg, hostPc, sel, desc, stream, kern, kno, threads, mem, rd, wr, vecRd,
                    wide, block, shm>>

\* thread u has arrived at the barrier of the c-th loadVec call
Arrived(u, c) ==
  \/ lanes[u].call > c
  \/ lanes[u].call = c /\ lanes[u].pc \in {"barrier", "returned"}

\* __syncthreads(): no thread goes on before every thread of the block has arrived
BarrierOpen(c) == \A u \in DOMAIN lanes : Arrived(u, c)

\* the slots thread t gathers in its c-th call:
\* reinterpret_cast<Vec::io_t*>(shm)[threadIdx.x]
GatherSlots(t, c) ==
  { WorkOffset(c, block.workSize) + t * block.ve + e : e \in 0..(block.ve - 1) }

\* past the barrier: out = shm[threadIdx.x] as a wide chunk; return, and enter
\* loadVec for the next vector if there is one
LvGather(t) ==
  LET l == lanes[t]
      chunk == [e \in 1..block.ve |->
                  shm[WorkOffset(l.call, block.workSize) + t * block.ve + e - 1]]
      out == Append(l.out, chunk)
  IN /\ l.pc = "barrier"
     /\ BarrierOpen(l.call)
     /\ lanes' = [lanes EXCEPT ![t] =
                    IF l.call < cfg.nVecs
                    THEN LaneEnter(block.blockOffset, t, l.call + 1, out)
                    ELSE [l EXCEPT !.pc = "returned", !.out = out]]
     /\ UNCHANGED <<cfg, hostPc, sel, desc, stream, kern, kno, threads, mem, rd, wr, vecRd,
                    wide, block, shm>>

\* the threads that have a step to take
LvEnabled ==
  { t \in DOMAIN lanes :
      \/ lanes[t].pc = "scatter"
      \/ lanes[t].pc = "barrier" /\ BarrierOpen(lanes[t].call) }

\* thread t is about to gather a slot its owner has not stored yet, or about
\* to store into a slot another thread has yet to gather for an earlier vector
LvExposed(t) ==
  LET l == lanes[t]
  IN \/ /\ l.pc = "barrier"
        /\ \E x \in GatherSlots(t, l.call) : shm[x].vec /= l.call
     \/ /\ l.pc = "scatter"
        /\ l.k < block.workSize
        /\ \E u \in DOMAIN lanes \ {t} :
              \E c \in 1..(l.call - 1) :
                 /\ Len(lanes[u].out) < c
                 /\ WorkOffset(l.call, block.workSize) + l.k \in GatherSlots(u, c)

\* The threads of a block run concurrently.  Steps of different threads
\* commute unless one stores into the slot the other gathers, so as long as
\* no thread is about to take such a step it is enough to run one thread that
\* can move: the one of the lowest index in one schedule of the block, the
\* one of the highest index in the other, so that each thread of a pair gets
\* ahead of the other; otherwise every thread that can move may.
LvRunnable ==
  LET en == LvEnabled
  IN IF en = {} \/ \E t \in en : LvExposed(t) THEN en
     ELSE IF block.first = "lowest" THEN { t \in en : \A u \in en : t <= u }
     ELSE { t \in en : \A u \in en : t >= u }

LvStep ==
  \E t \in LvRunnable :
     LvScatter(t) \/ LvSpin(t) \/ LvWrapAssumedFinite(t) \/ LvArrive(t) \/ LvGather(t)

NextLoadVec == Run \/ LaunchMain \/ LaunchTail \/ BlockBegin \/ LvStep

\* a launched kernel is executed and each of its threads keeps being scheduled
SpecLoadVec == InitLoadVec /\ [][NextLoadVec]_vars /\ WF_vars(NextLoadVec)

\* The same kernels with one to StagingVecs vector arguments and rowLen >= 1:
\* from the third vector on, workOffset ^= workSize comes back to a staging
\* buffer used before.
StagingConfigs ==
  { c \in [sz : {4}, inOff : {2}, outOff : {2}, inplace : {FALSE},
           rowLen : {StagingMaxRowLen}, nRows : {StagingRows}, alongLines : {TRUE},
           op : {"op"}, nVecs : {1, StagingVecs}, smCount : {SmCount},
           maxBlockSize : {MaxThreadsPerBlock}] :
      c.outOff = c.inOff }

InitStaging ==
  /\ cfg \in StagingConfigs
  /\ hostPc = "entry"
  /\ sel = [vecBytes |-> 0, halvings |-> 0]
  /\ desc = NoDesc
  /\ stream = <<>>
  /\ kern = NoKernel
  /\ kno = 0
  /\ threads = <<>>
  /\ mem = <<>>
  /\ rd = {}
  /\ wr = {}
  /\ vecRd = {}
  /\ wide = {}
  /\ block = NoBlock
  /\ lanes = <<>>
  /\ shm = <<>>

SpecStaging == InitStaging /\ [][NextLoadVec]_vars

\* ------------------------------------------------------------ stats::detail::sum
\* sum(output, input, D, N, rowMajor, stream) and its two kernels.  A sum is
\* symbolic: the set of the input elements added up, and whether one of them
\* was added twice.  cfg holds the arguments, stream the operations issued to
\* the legacy default stream and to the caller's stream and not yet begun,
\* kern the kernel in execution with the blocks it has finished, block,
\* lanes and shm the block that is running, mem the output vector, wr the
\* indices of output that were accessed.

linewiseState == <<sel, desc, kno, threads, rd, vecRd, wide>>

Zero == [elems |-> {}, dup |-> FALSE]
\* what output holds before the call
Garbage == [elems |-> {-1}, dup |-> FALSE]
Plus(a, b) ==
  [elems |-> a.elems \cup b.elems,
   dup |-> a.dup \/ b.dup \/ (a.elems \cap b.elems /= {})]

\* the stream argument: the legacy default stream, a stream that synchronises
\* with it, or one created with cudaStreamNonBlocking
StreamKinds == {"legacy", "blocking", "nonBlocking"}

SumDims == {1, ColsPerBlk + SumExtra}

SumConfigs ==
  [D : SumDims, N : SumDims, rowMajor : BOOLEAN, streamKind : StreamKinds]

CallerQueue == IF cfg.streamKind = "legacy" THEN "legacy" ELSE "caller"

InitSum ==
  /\ cfg \in SumConfigs
  /\ hostPc = "entry"
  /\ stream = [legacy |-> <<>>, caller |-> <<>>]
  /\ kern = NoKernel
  /\ mem = [c \in 0..(cfg.D - 1) |-> Garbage]
  /\ wr = {}
  /\ block = NoBlock
  /\ lanes = <<>>
  /\ shm = <<>>
  /\ sel = [vecBytes |-> 0, halvings |-> 0]
  /\ desc = NoDesc
  /\ kno = 0
  /\ threads = <<>>
  /\ rd = {}
  /\ vecRd = {}
  /\ wide = {}

\* RAFT_CUDA_TRY(cudaMemset(output, 0, sizeof(Type) * D)): no stream argument,
\* the memset goes to the legacy default stream
SumMemset ==
  /\ hostPc = "entry"
  /\ cfg.rowMajor
  /\ stream' = [stream EXCEPT !.legacy = Append(@, [op |-> "memset"])]
  /\ hostPc' = "zeroIssued"
  /\ UNCHANGED <<cfg, kern, mem, wr, block, lanes, shm, linewiseState>>

\* dim3 grid(ceildiv(N, RowsPerBlk), ceildiv(D, ColsPerBlk));
\* sumKernelRowMajor<<<grid, TPB, 0, stream>>>(output, input, D, N)
SumLaunchRowMajor ==
  /\ hostPc = "zeroIssued"
  /\ LET RowsPerBlk == (TPB \div ColsPerBlk) * RowsPerThread
         k == [op |-> "rowMajor", gx |-> ceildiv(cfg.N, RowsPerBlk),
               gy |-> ceildiv(cfg.D, ColsPerBlk)]
     IN stream' = [stream EXCEPT ![CallerQueue] = Append(@, k)]
  /\ hostPc' = "returned"
  /\ UNCHANGED <<cfg, kern, mem, wr, block, lanes, shm, linewiseState>>

\* sumKernelColMajor<<<D, TPB, 0, stream>>>(output, input, D, N)
SumLaunchColMajor ==
  /\ hostPc = "entry"
  /\ ~cfg.rowMajor
  /\ stream' = [stream EXCEPT ![CallerQueue] =
                   Append(@, [op |-> "colMajor", gx |-> cfg.D, gy |-> 1])]
  /\ hostPc' = "returned"
  /\ UNCHANGED <<cfg, kern, mem, wr, block, lanes, shm, linewiseState>>

\* the device executes the memset
MemsetRuns ==
  /\ stream.legacy /= <<>>
  /\ Head(stream.legacy).op = "memset"
  /\ stream' = [stream EXCEPT !.legacy = Tail(@)]
  /\ mem' = [c \in DOMAIN mem |-> Zero]
  /\ UNCHANGED <<cfg, hostPc, kern, wr, block, lanes, shm, linewiseState>>

\* A kernel begins when it is at the head of its stream; in a stream that
\* synchronises with the legacy default stream, not before the work issued
\* to that stream earlier is over.  A non-blocking stream does not wait.
KernelBegins ==
  /\ kern = NoKernel
  /\ stream[CallerQueue] /= <<>>
  /\ Head(stream[CallerQueue]).op \in {"rowMajor", "colMajor"}
  /\ cfg.streamKind = "blocking" => stream.legacy = <<>>
  /\ \E first \in {"lowest", "highest"} :
        kern' = [kind |-> Head(stream[CallerQueue]).op,
                 gx |-> Head(stream[CallerQueue]).gx,
                 gy |-> Head(stream[CallerQueue]).gy, done |-> {}, first |-> first]
  /\ stream' = [stream EXCEPT ![CallerQueue] = Tail(@)]
  /\ UNCHANGED <<cfg, hostPc, mem, wr, block, lanes, shm, linewiseState>>

SumBlocks == { <<bx, by>> : bx \in 0..(kern.gx - 1), by \in 0..(kern.gy - 1) }

\* The blocks of a grid share nothing but output, which they update by
\* atomic additions or at different indices: they are run one after the
\* other, upwards in one schedule of the kernel and downwards in the other.
BlockNumber(b) == b[1] + kern.gx * b[2]
NextBlocks ==
  LET todo == SumBlocks \ kern.done
  IN IF kern.first = "lowest"
     THEN { b \in todo : \A c \in todo : BlockNumber(b) <= BlockNumber(c) }
     ELSE { b \in todo : \A c \in todo : BlockNumber(b) >= BlockNumber(c) }

\* thread_data of thread t of block (bx, by): the loop
\* for (i = rowId; i < N; i += stride) thread_data += (colId < D) ? data[i*D + colId] : 0
RowMajorThreadData(t, bx, by, gx) ==
  LET RowsPerBlkPerIter == TPB \div ColsPerBlk
      colId == (t % ColsPerBlk) + by * ColsPerBlk
      rowId == (t \div ColsPerBlk) + bx * RowsPerBlkPerIter
      stride == RowsPerBlkPerIter * gx
      rows == { i \in 0..(cfg.N - 1) : i >= rowId /\ (i - rowId) % stride = 0 }
  IN [elems |-> IF colId < cfg.D THEN { i * cfg.D + colId : i \in rows } ELSE {},
      dup |-> FALSE]

\* a block of the row-major kernel starts: every thread has run its loop; the
\* threads below ColsPerBlk are about to write smu, the others have nothing
\* to do before the first barrier
RowMajorBlockBegin ==
  /\ kern /= NoKernel
  /\ kern.kind = "rowMajor"
  /\ block = NoBlock
  /\ \E b \in NextBlocks :
        /\ block' = [kind |-> "rowMajor", bx |-> b[1], by |-> b[2], first |-> kern.first]
        /\ lanes' = [t \in 0..(TPB - 1) |->
                       [pc |-> IF t < ColsPerBlk THEN "init" ELSE "sync1",
                        thread_data |-> RowMajorThreadData(t, b[1], b[2], kern.gx)]]
        /\ shm' = [c \in 0..(ColsPerBlk - 1) |-> Garbage]
  /\ UNCHANGED <<cfg, hostPc, stream, kern, mem, wr, linewiseState>>

\* if (threadIdx.x < ColsPerBlk) smu[threadIdx.x] = Type(0); then __syncthreads()
SumInit(t) ==
  /\ lanes[t].pc = "init"
  /\ shm' = [shm EXCEPT ![t] = Zero]
  /\ lanes' = [lanes EXCEPT ![t].pc = "sync1"]
  /\ UNCHANGED <<cfg, hostPc, stream, kern, mem, wr, block, linewiseState>>

\* past the first barrier: raft::myAtomicAdd(smu + thisColId, thread_data);
\* then the second __syncthreads(), after which only the threads below
\* ColsPerBlk have something to do
SumAddShared(t) ==
  /\ lanes[t].pc = "sync1"
  /\ \A u \in DOMAIN lanes : lanes[u].pc /= "init"
  /\ shm' = [shm EXCEPT ![t % ColsPerBlk] = Plus(@, lanes[t].thread_data)]
  /\ lanes' = [lanes EXCEPT ![t].pc = IF t < ColsPerBlk THEN "sync2" ELSE "done"]
  /\ UNCHANGED <<cfg, hostPc, stream, kern, mem, wr, block, linewiseState>>

\* past the second barrier:
\* if (threadIdx.x < ColsPerBlk) raft::myAtomicAdd(mu + colId, smu[thisColId])
SumAddGlobal(t) ==
  LET colId == (t % ColsPerBlk) + block.by * ColsPerBlk
  IN /\ lanes[t].pc = "sync2"
     /\ \A u \in DOMAIN lanes : lanes[u].pc \notin {"init", "sync1"}
     /\ t < ColsPerBlk
     /\ wr' = wr \cup {colId}
     /\ mem' = IF colId \in DOMAIN mem
               THEN [mem EXCEPT ![colId] = Plus(@, shm[t % ColsPerBlk])]
               ELSE mem
     /\ lanes' = [lanes EXCEPT ![t].pc = "done"]
     /\ UNCHANGED <<cfg, hostPc, stream, kern, block, shm, linewiseState>>

\* the threads of the block that can take a step
SumEnabled ==
  LET open1 == \A u \in DOMAIN lanes : lanes[u].pc /= "init"
      open2 == \A u \in DOMAIN lanes : lanes[u].pc \notin {"init", "sync1"}
  IN { t \in DOMAIN lanes :
         \/ lanes[t].pc = "init"
         \/ lanes[t].pc = "sync1" /\ open1
         \/ lanes[t].pc = "sync2" /\ open2 }

\* Between two barriers the steps of different threads either touch different
\* addresses or are atomic additions to one address: it is enough to run the
\* threads in index order, upwards in one schedule and downwards in the other.
SumRunnable ==
  LET en == SumEnabled
  IN IF en = {} THEN en
     ELSE IF block.first = "lowest" THEN { t \in en : \A u \in en : t <= u }
     ELSE { t \in en : \A u \in en : t >= u }

RowMajorStep ==
  /\ block /= NoBlock
  /\ block.kind = "rowMajor"
  /\ \E t \in SumRunnable : SumInit(t) \/ SumAddShared(t) \/ SumAddGlobal(t)

\* every thread of the block has returned
RowMajorBlockEnd ==
  /\ block /= NoBlock
  /\ block.kind = "rowMajor"
  /\ \A t \in DOMAIN lanes : lanes[t].pc = "done"
  /\ kern' = [kern EXCEPT !.done = @ \cup {<<block.bx, block.by>>}]
  /\ block' = NoBlock
  /\ lanes' = <<>>
  /\ shm' = <<>>
  /\ UNCHANGED <<cfg, hostPc, stream, mem, wr, linewiseState>>

\* thread_data of thread t of block bx of the column-major kernel:
\* for (i = threadIdx.x; i < N; i += TPB) thread_data += data[N * blockIdx.x + i]
ColMajorRows(t) == { i \in 0..(cfg.N - 1) : i >= t /\ (i - t) % TPB = 0 }
ColMajorThreadData(t, bx) ==
  [elems |-> { cfg.N * bx + i : i \in ColMajorRows(t) }, dup |-> FALSE]

\* BlockReduce(temp_storage).Sum(thread_data): thread 0 gets the sum over the
\* threads of the block
BlockReduceSum(bx) ==
  [elems |-> UNION { ColMajorThreadData(t, bx).elems : t \in 0..(TPB - 1) },
   dup |-> \E i \in 0..(cfg.N - 1) :
              Cardinality({ t \in 0..(TPB - 1) : i \in ColMajorRows(t) }) > 1]

\* a block of the column-major kernel: if (threadIdx.x == 0) mu[blockIdx.x] = acc
ColMajorBlock ==
  /\ kern /= NoKernel
  /\ kern.kind = "colMajor"
  /\ \E b \in NextBlocks :
        /\ wr' = wr \cup {b[1]}
        /\ mem' = [mem EXCEPT ![b[1]] = BlockReduceSum(b[1])]
        /\ kern' = [kern EXCEPT !.done = @ \cup {b}]
  /\ UNCHANGED <<cfg, hostPc, stream, block, lanes, shm, linewiseState>>

\* the kernel is over when all its blocks are
KernelEnds ==
  /\ kern /= NoKernel
  /\ kern.kind \in {"rowMajor", "colMajor"}
  /\ kern.done = SumBlocks
  /\ kern' = [kind |-> "finished"]
  /\ UNCHANGED <<cfg, hostPc, stream, mem, wr, block, lanes, shm, linewiseState>>

NextSum ==
  \/ SumMemset \/ SumLaunchRowMajor \/ SumLaunchColMajor
  \/ MemsetRuns \/ KernelBegins
  \/ RowMajorBlockBegin \/ RowMajorStep \/ RowMajorBlockEnd
  \/ ColMajorBlock \/ KernelEnds

SpecSum == InitSum /\ [][NextSum]_vars

\* sum has returned and the device has executed everything it issued
SumCompleted ==
  /\ hostPc = "returned"
  /\ stream.legacy = <<>> /\ stream.caller = <<>>
  /\ kern = [kind |-> "finished"]

\* ------------------------------------------------------------ lstsqEig
\* The host side of lstsqEig (stream selection, events, the operations it
\* enqueues) and the device executing the streams.  cfg holds the caller's
\* stream, the handle's own stream, the size of its pool and the flags of
\* the streams; sel the streams selected; stream the queue of every stream;
\* kno counts the operations issued; wr is the set of operations executed.

LegacyStream == <<"legacy", 0>>
UserStream == <<"user", 0>>
PoolStream(i) == <<"pool", i>>
LstsqStreams == {LegacyStream, UserStream} \cup { PoolStream(i) : i \in 1..LstsqPool }

LstsqConfigs ==
  { c \in [stream : LstsqStreams, handleStream : {LegacyStream, UserStream},
           poolSize : 0..LstsqPool, userKind : {"blocking", "nonBlocking"},
           poolKind : {"blocking", "nonBlocking"}] :
      c.stream[1] = "pool" => c.stream[2] <= c.poolSize }

\* cudaStreamGetFlags(s) & cudaStreamNonBlocking
NonBlocking(s) ==
  \/ s[1] = "user" /\ cfg.userKind = "nonBlocking"
  \/ s[1] = "pool" /\ cfg.poolKind = "nonBlocking"

\* rmm::cuda_stream_view::is_default()
IsDefault(s) == s = LegacyStream

\* every two streams taken for synchronised
AlwaysSynchronized(a, b) == TRUE

are_implicitly_synchronized(a, b) ==
  \/ a = b
  \/ IsDefault(a) /\ ~NonBlocking(b)
  \/ IsDefault(b) /\ ~NonBlocking(a)

\* handle.get_next_usable_stream(): a stream of the pool, the handle's own
\* stream if it has no pool
UsableStreams ==
  IF cfg.poolSize > 0 THEN { PoolStream(i) : i \in 1..cfg.poolSize } ELSE {cfg.handleStream}

\* an operation that is no event operation
Op(name) == <<name, "">>

\* an operation issued to stream s: what it is and when it was issued
Issue(q, s, name, n) == [q EXCEPT ![s] = Append(@, [name |-> name, seq |-> n])]

\* the caller has enqueued the work that produces A and b on its stream
InitLstsq ==
  /\ cfg \in LstsqConfigs
  /\ hostPc = "entry"
  /\ stream = Issue([s \in LstsqStreams |-> <<>>], cfg.stream, Op("before"), 0)
  /\ kno = 1
  /\ sel = [mainStream |-> cfg.stream, multAbStream |-> cfg.stream, concurrent |-> FALSE]
  /\ wr = {}
  /\ kern = NoKernel
  /\ mem = <<>>
  /\ block = NoBlock
  /\ lanes = <<>>
  /\ shm = <<>>
  /\ desc = NoDesc
  /\ threads = <<>>
  /\ rd = {}
  /\ vecRd = {}
  /\ wide = {}

lstsqRest == <<cfg, kern, mem, block, lanes, shm, desc, threads, rd, vecRd, wide>>

\* mainStream = stream; multAbStream = handle.get_next_usable_stream(); then
\* the three branches of the stream selection
SelectStreams ==
  /\ hostPc = "entry"
  /\ \E m \in UsableStreams :
        IF ~are_implicitly_synchronized(cfg.stream, m)
        THEN sel' = [mainStream |-> cfg.stream, multAbStream |-> m, concurrent |-> TRUE]
        ELSE IF cfg.poolSize > 1
        THEN \E n \in UsableStreams :
                sel' = [mainStream |-> n, multAbStream |-> m, concurrent |-> TRUE]
        ELSE sel' = [mainStream |-> cfg.stream, multAbStream |-> cfg.stream,
                     concurrent |-> FALSE]
  /\ hostPc' = "selected"
  /\ UNCHANGED <<stream, kno, wr, lstsqRest>>

\* a wait that is never issued
WaitByNever(q, created, s, ev, n) == q

\* DeviceEvent::record / DeviceEvent::wait_by: nothing without an event
Record(q, created, s, ev, n) == IF created THEN Issue(q, s, <<"record", ev>>, n) ELSE q
WaitBy(q, created, s, ev, n) == IF created THEN Issue(q, s, <<"wait", ev>>, n) ELSE q

\* rmm::device_uvector workset(..., mainStream); worksetDone.record(mainStream)
AllocWorkset ==
  /\ hostPc = "selected"
  /\ stream' = Record(Issue(stream, sel.mainStream, Op("alloc"), kno),
                      sel.concurrent, sel.mainStream, "worksetDone", kno + 1)
  /\ kno' = kno + 2
  /\ hostPc' = "allocated"
  /\ UNCHANGED <<sel, wr, lstsqRest>>

\* covA <- A* A on mainStream
GemmCovA ==
  /\ hostPc = "allocated"
  /\ stream' = Issue(stream, sel.mainStream, Op("gemmCovA"), kno)
  /\ kno' = kno + 1
  /\ hostPc' = "covIssued"
  /\ UNCHANGED <<sel, wr, lstsqRest>>

\* worksetDone.wait_by(multAbStream); Ab <- A* b on multAbStream;
\* multAbDone.record(multAbStream)
GemvAb ==
  /\ hostPc = "covIssued"
  /\ stream' = Record(Issue(WaitBy(stream, sel.concurrent, sel.multAbStream,
                                   "worksetDone", kno),
                            sel.multAbStream, Op("gemvAb"), kno + 1),
                      sel.concurrent, sel.multAbStream, "multAbDone", kno + 2)
  /\ kno' = kno + 3
  /\ hostPc' = "abIssued"
  /\ UNCHANGED <<sel, wr, lstsqRest>>

\* eigDC, matrixVectorOp and the second gemm on mainStream
InvertCovA ==
  /\ hostPc = "abIssued"
  /\ stream' = Issue(Issue(Issue(stream, sel.mainStream, Op("eigDC"), kno),
                            sel.mainStream, Op("matrixVectorOp"), kno + 1),
                      sel.mainStream, Op("gemmInv"), kno + 2)
  /\ kno' = kno + 3
  /\ hostPc' = "invIssued"
  /\ UNCHANGED <<sel, wr, lstsqRest>>

\* multAbDone.wait_by(mainStream); w <- covA Ab on mainStream
GemvW ==
  /\ hostPc = "invIssued"
  /\ stream' = Issue(WaitBy(stream, sel.concurrent, sel.mainStream, "multAbDone", kno),
                      sel.mainStream, Op("gemvW"), kno + 1)
  /\ kno' = kno + 2
  /\ hostPc' = "wIssued"
  /\ UNCHANGED <<sel, wr, lstsqRest>>

\* DeviceEvent mainDone(!are_implicitly_synchronized(mainStream, stream));
\* mainDone.record(mainStream); mainDone.wait_by(stream); return
MainDone ==
  /\ hostPc = "wIssued"
  /\ LET created == ~are_implicitly_synchronized(sel.mainStream, cfg.stream)
     IN stream' = WaitBy(Record(stream, created, sel.mainStream, "mainDone", kno),
                         created, cfg.stream, "mainDone", kno + 1)
  /\ kno' = kno + 2
  /\ hostPc' = "returned"
  /\ UNCHANGED <<sel, wr, lstsqRest>>

\* the caller goes on to use w on its stream
CallerAfter ==
  /\ hostPc = "returned"
  /\ stream' = Issue(stream, cfg.stream, Op("after"), kno)
  /\ kno' = kno + 1
  /\ hostPc' = "done"
  /\ UNCHANGED <<sel, wr, lstsqRest>>

\* the operations issued before number n to the streams in S and not executed
PendingBefore(S, n) ==
  { o \in UNION { { stream[s][i] : i \in 1..Len(stream[s]) } : s \in S } : o.seq < n }

\* The device takes the operation at the head of stream s.  The legacy
\* default stream waits for what was issued earlier to the blocking streams,
\* a blocking stream for what was issued earlier to the legacy default
\* stream; the wait for an event ends when its record has been executed.
Execute(s) ==
  /\ stream[s] /= <<>>
  /\ LET o == Head(stream[s])
         blocking == { x \in LstsqStreams : x /= LegacyStream /\ ~NonBlocking(x) }
     IN /\ IsDefault(s) => PendingBefore(blocking, o.seq) = {}
        /\ (~IsDefault(s) /\ ~NonBlocking(s)) => PendingBefore({LegacyStream}, o.seq) = {}
        /\ o.name[1] = "wait" => <<"record", o.name[2]>> \in wr
        /\ wr' = wr \cup {o.name}
  /\ stream' = [stream EXCEPT ![s] = Tail(@)]
  /\ UNCHANGED <<hostPc, sel, kno, lstsqRest>>

NextLstsq ==
  \/ SelectStreams \/ AllocWorkset \/ GemmCovA \/ GemvAb \/ InvertCovA \/ GemvW
  \/ MainDone \/ CallerAfter
  \/ \E s \in LstsqStreams : Execute(s)

SpecLstsq == InitLstsq /\ [][NextLstsq]_vars

\* ------------------------------------------------------------ transpose (in place)
\* transpose(inout, n, stream), called twice on one stream.  mem holds the
\* elements of inout that were stored to (an element holds the index of the
\* original element it carries; an index not in mem still holds its own),
\* stream the for_each launches not yet begun, kern the launch in execution,
\* threads the iterations of that launch, rd and wr what each iteration read
\* and wrote, kno the number of launches completed.

\* INT_MAX = 2^(IntBits - 1) - 1
IntMax == (TwoTo(IntBits - 2) - 1) * 2 + 1

\* n * n fits in int
SquareFits(n) == n = 0 \/ n <= IntMax \div n

\* n * n computed in int: the square if it fits; else signed overflow, which
\* is undefined: the wrapped value n*n - 2^IntBits, written as
\* (n - 2^(IntBits/2)) * (n + 2^(IntBits/2)), or a range taken to be empty
IntSquares(n) ==
  IF SquareFits(n) THEN {n * n}
  ELSE {(n - TwoTo(IntBits \div 2)) * (n + TwoTo(IntBits \div 2)), 0}

\* the smallest n whose square does not fit
OverflowN == CHOOSE k \in 1..TwoTo(IntBits \div 2) : ~SquareFits(k) /\ SquareFits(k - 1)

TransposeSizes == (0..TransposeMaxN) \cup {OverflowN}

transposeRest == <<sel, desc, block, lanes, shm, vecRd, wide>>

InitTranspose ==
  /\ cfg \in [n : TransposeSizes]
  /\ hostPc = "entry"
  /\ stream = <<>>
  /\ kern = NoKernel
  /\ kno = 0
  /\ threads = <<>>
  /\ mem = <<>>
  /\ rd = {}
  /\ wr = {}
  /\ sel = [vecBytes |-> 0, halvings |-> 0]
  /\ desc = NoDesc
  /\ block = NoBlock
  /\ lanes = <<>>
  /\ shm = <<>>
  /\ vecRd = {}
  /\ wide = {}

\* d_inout[i]
Value(i) == IF i \in DOMAIN mem THEN mem[i] ELSE i
\* d_inout[i] = v
Stored(i, v) == [x \in DOMAIN mem \cup {i} |-> IF x = i THEN v ELSE mem[x]]

\* auto size = n * n; thrust::for_each(rmm::exec_policy(stream), counting,
\* counting + size, ...): the first call, and the second on the same stream
TransposeCall ==
  /\ hostPc \in {"entry", "once"}
  /\ \E size \in IntSquares(cfg.n) :
        stream' = Append(stream, [m |-> cfg.n, size |-> size])
  /\ hostPc' = IF hostPc = "entry" THEN "once" ELSE "twice"
  /\ UNCHANGED <<cfg, kern, kno, threads, mem, rd, wr, transposeRest>>

\* the stream begins the next for_each: one iteration per idx in [0, size);
\* an iteration with s_row >= s_col has nothing to do
ForEachBegin ==
  /\ kern = NoKernel
  /\ stream /= <<>>
  /\ kern' = [kind |-> "for_each", m |-> Head(stream).m, size |-> Head(stream).size]
  /\ threads' = [idx \in 0..(Head(stream).size - 1) |->
                   [pc |-> IF idx % Head(stream).m < idx \div Head(stream).m
                           THEN "load" ELSE "done",
                    temp |-> -1]]
  /\ stream' = Tail(stream)
  /\ UNCHANGED <<cfg, hostPc, kno, mem, rd, wr, transposeRest>>

\* d_inout[d_col * m + d_row] with d_row = s_col, d_col = s_row
Dst(idx) == (idx % kern.m) * kern.m + (idx \div kern.m)
\* d_inout[s_col * m + s_row]
Src(idx) == (idx \div kern.m) * kern.m + (idx % kern.m)

\* auto temp = d_inout[d_col * m + d_row]
SwapLoad(idx) ==
  /\ threads[idx].pc = "load"
  /\ threads' = [threads EXCEPT ![idx] = [pc |-> "copy", temp |-> Value(Dst(idx))]]
  /\ rd' = rd \cup {<<Dst(idx), idx, kno>>}
  /\ UNCHANGED <<cfg, hostPc, stream, kern, kno, mem, wr, transposeRest>>

\* d_inout[d_col * m + d_row] = d_inout[s_col * m + s_row]
SwapCopy(idx) ==
  /\ threads[idx].pc = "copy"
  /\ mem' = Stored(Dst(idx), Value(Src(idx)))
  /\ rd' = rd \cup {<<Src(idx), idx, kno>>}
  /\ wr' = wr \cup {<<Dst(idx), idx, kno>>}
  /\ threads' = [threads EXCEPT ![idx].pc = "store"]
  /\ UNCHANGED <<cfg, hostPc, stream, kern, kno, transposeRest>>

\* d_inout[s_col * m + s_row] = temp
SwapStore(idx) ==
  /\ threads[idx].pc = "store"
  /\ mem' = Stored(Src(idx), threads[idx].temp)
  /\ wr' = wr \cup {<<Src(idx), idx, kno>>}
  /\ threads' = [threads EXCEPT ![idx].pc = "done"]
  /\ UNCHANGED <<cfg, hostPc, stream, kern, kno, rd, transposeRest>>

\* every iteration of the for_each is over
ForEachEnd ==
  /\ kern /= NoKernel
  /\ \A idx \in DOMAIN threads : threads[idx].pc = "done"
  /\ kern' = NoKernel
  /\ threads' = <<>>
  /\ kno' = kno + 1
  /\ UNCHANGED <<cfg, hostPc, stream, mem, rd, wr, transposeRest>>

NextTranspose ==
  \/ TransposeCall \/ ForEachBegin \/ ForEachEnd
  \/ \E idx \in DOMAIN threads : SwapLoad(idx) \/ SwapCopy(idx) \/ SwapStore(idx)

SpecTranspose == InitTranspose /\ [][NextTranspose]_vars

\* the n-th call is complete and nothing of a later call has begun
TransposedTimes(k) == kno = k /\ kern = NoKernel

\* ------------------------------------------------------------ myAtomicReduce
\* Concurrent calls of myAtomicMin, myAtomicMax or myAtomicReduce on one
\* address.  mem is *address, threads the calls (position, old, assumed and
\* what the call returned), kno the number of compare-and-swaps that have
\* succeeded.

ReduceOps == {"min", "max", "plus"}

\* op(val, assumed): fmin / myMin, fmax / myMax, or some other associative
\* and commutative op
Reduce(op, a, b) ==
  IF op = "min" THEN (IF a < b THEN a ELSE b)
  ELSE IF op = "max" THEN (IF a > b THEN a ELSE b)
  ELSE a + b

\* the calls differ by their val only: vals in thread order
AtomicConfigs ==
  { c \in [op : ReduceOps, init : 0..AtomicMaxVal,
           val : [1..AtomicThreads -> 0..AtomicMaxVal]] :
      \A t \in 1..(AtomicThreads - 1) : c.val[t] <= c.val[t + 1] }

atomicRest == <<hostPc, sel, desc, stream, kern, rd, wr, vecRd, wide, block, lanes, shm>>

InitAtomic ==
  /\ cfg \in AtomicConfigs
  /\ mem = cfg.init
  /\ threads = [t \in 1..AtomicThreads |->
                  [pc |-> "read", old |-> 0, assumed |-> 0, seen |-> 0, failed |-> 0,
                   ret |-> 0]]
  /\ kno = 0
  /\ hostPc = "entry"
  /\ sel = [vecBytes |-> 0, halvings |-> 0]
  /\ desc = NoDesc
  /\ stream = <<>>
  /\ kern = NoKernel
  /\ rd = {}
  /\ wr = {}
  /\ vecRd = {}
  /\ wide = {}
  /\ block = NoBlock
  /\ lanes = <<>>
  /\ shm = <<>>

\* a store that does not compare
BlindStore(cur, assumed, new) == new

\* atomicCAS(address, assumed, new): what *address holds afterwards
atomicCAS(cur, assumed, new) == IF cur = assumed THEN new ELSE cur

\* T old = *address
AtomicRead(t) ==
  /\ threads[t].pc = "read"
  /\ threads' = [threads EXCEPT ![t] = [@ EXCEPT !.pc = "cas", !.old = mem, !.seen = kno]]
  /\ UNCHANGED <<cfg, mem, kno, atomicRest>>

\* do { assumed = old; old = atomicCAS(address, assumed, op(val, assumed)); }
\* while (assumed != old): one iteration
AtomicCas(t) ==
  LET assumed == threads[t].old
      new == atomicCAS(mem, assumed, Reduce(cfg.op, cfg.val[t], assumed))
      swapped == mem = assumed
  IN /\ threads[t].pc = "cas"
     /\ mem' = new
     /\ kno' = IF swapped THEN kno + 1 ELSE kno
     /\ threads' = [threads EXCEPT ![t] =
                      [@ EXCEPT !.assumed = assumed, !.old = mem, !.seen = kno,
                                !.failed = IF swapped THEN @ ELSE @ + 1,
                                !.pc = IF assumed = mem
                                       THEN (IF cfg.op = "plus" THEN "done" ELSE "return")
                                       ELSE "cas"]]
     /\ UNCHANGED <<cfg, atomicRest>>

\* myAtomicMin / myAtomicMax: return *address
AtomicReturn(t) ==
  /\ threads[t].pc = "return"
  /\ threads' = [threads EXCEPT ![t] = [@ EXCEPT !.pc = "done", !.ret = mem]]
  /\ UNCHANGED <<cfg, mem, kno, atomicRest>>

NextAtomic == \E t \in 1..AtomicThreads : AtomicRead(t) \/ AtomicCas(t) \/ AtomicReturn(t)

\* every thread that can take a step is scheduled
SpecAtomic == InitAtomic /\ [][NextAtomic]_vars /\ WF_vars(NextAtomic)

AllReturned == \A t \in 1..AtomicThreads : threads[t].pc = "done"

\* the fold of the initial value and all vals
RECURSIVE Folded(_)
Folded(n) == IF n = 0 THEN cfg.init ELSE Reduce(cfg.op, cfg.val[n], Folded(n - 1))

\* the run call has returned and the stream has executed everything enqueued
Completed == hostPc = "returned" /\ stream = <<>> /\ AllDone


\* ------------------------------------------------------------ properties

\* the naive scalar reference: op applied once to in[i] with element j of
\* every vector
Reference(i, j) ==
  IF cfg.op = "id" THEN [src |-> i, ops |-> <<>>]
  ELSE [src |-> i, ops |-> << [l \in 1..cfg.nVecs |-> j] >>]

OutIsReference ==
  \A i \in 0..(totalLen - 1) :
     mem[outSlot + i] = Reference(i, IF cfg.alongLines THEN i % cfg.rowLen ELSE i \div cfg.rowLen)

\* C1: with alongLines = false, once the stream's work has completed, out[i] =
\* op(in[i], vec_1[i div rowLen], ..., vec_n[i div rowLen]) for every i in
\* [0, rowLen*nRows), for every placement of in and out and every size
C1_ColsEqualsReference == (Completed /\ ~cfg.alongLines) => OutIsReference

\* C2: with alongLines = true, once the stream's work has completed, out[i] =
\* op(in[i], vec_1[i mod rowLen], ..., vec_n[i mod rowLen]) for every i in
\* [0, rowLen*nRows), for every placement of in and out and every size
C2_RowsEqualsReference == (Completed /\ cfg.alongLines) => OutIsReference

Readers(s) == { e \in rd : e[1] = s }
Writers(s) == { e \in wr : e[1] = s }

\* C3: when run is called in place (out == in), under every interleaving each
\* element is read exactly once and written exactly once, and the final value
\* at index i is op applied exactly once to the initial value at i
C3_InPlaceExactlyOnce ==
  (Completed /\ cfg.inplace) =>
     /\ OutIsReference
     /\ \A i \in 0..(totalLen - 1) :
           /\ Cardinality(Readers(inSlot + i)) = 1
           /\ Cardinality(Writers(outSlot + i)) = 1

\* C4: within one run call no index of out is written by more than one thread
C4_WritesDisjoint == \A s \in DOMAIN mem : Cardinality(Writers(s)) <= 1

\* C5: the alignment descriptor satisfies 0 <= alignedOff <= alignedEnd <=
\* totalLen and alignedLen is a non-negative multiple of VecElems
C5_DescriptorPartitions ==
  hostPc /= "entry" =>
     /\ 0 <= desc.alignedOff
     /\ desc.alignedOff <= desc.alignedEnd
     /\ desc.alignedEnd <= desc.totalLen
     /\ desc.alignedLen >= 0
     /\ desc.alignedLen % (sel.vecBytes \div cfg.sz) = 0

\* C6: no thread reads in or writes out at an index outside [0, rowLen*nRows),
\* and no thread reads a broadcast vector outside [0, nRows) (alongLines
\* false) or [0, rowLen) (alongLines true)
C6_AccessesInBounds ==
  /\ \A e \in rd : e[1] >= inSlot /\ e[1] < inSlot + totalLen
  /\ \A e \in wr : e[1] >= outSlot /\ e[1] < outSlot + totalLen
  /\ \A j \in vecRd : j >= 0 /\ j < (IF cfg.alongLines THEN cfg.rowLen ELSE cfg.nRows)


\* C7: run dispatches with the largest power-of-two width W in
\* {16, 8, ..., sizeof(Type)} at which in and out have equal address
\* remainders, W = sizeof(Type) when no larger width qualifies, after at most
\* log2(16 / sizeof(Type)) halvings
CommonWidths ==
  { W \in {1, 2, 4, 8, 16} : W >= cfg.sz /\ W <= MaxVecBytes /\ inAddr % W = outAddr % W }

C7_WidestCommonWidth ==
  hostPc /= "entry" =>
     /\ sel.vecBytes \in CommonWidths \cup {cfg.sz}
     /\ \A W \in CommonWidths : W <= sel.vecBytes
     /\ TwoTo(sel.halvings) * cfg.sz <= MaxVecBytes

C7_Witness ==
  hostPc /= "entry" /\ cfg.sz = 4 /\ sel.vecBytes = 8 /\ sel.halvings = 1

\* C8: every wide load from in and every wide store to out of a main kernel
\* is at an address that is a multiple of the VecBytes chosen by run
C8_WideAccessesAligned == \A a \in wide : a % sel.vecBytes = 0

C8_Witness ==
  /\ ~cfg.inplace /\ cfg.inOff /= 0 /\ sel.vecBytes > cfg.sz
  /\ \E a \in wide : a >= outAddr

\* C9 as stated: the grid of the vectorRows main kernel is an exact multiple
\* of rowLen / gcd(BlockSize*VecElems, rowLen), i.e.
\* (gridDim.x * BlockSize * VecElems) mod rowLen = 0
RowsMainLaunches == { i \in 1..Len(stream) : stream[i].kind = "rowsMain" }

C10_IdentityCopies ==
  (Completed /\ cfg.op = "id") =>
     \A i \in 0..(totalLen - 1) : mem[outSlot + i] = [src |-> i, ops |-> <<>>]

C10_Witness ==
  /\ Completed /\ cfg.op = "id" /\ ~cfg.inplace
  /\ desc.alignedOff > 0 /\ desc.alignedLen > 0 /\ desc.alignedEnd < desc.totalLen

\* ------------------------------------------------------------ launches

\* the kernels run has enqueued so far: those the stream has started and
\* those still waiting in it
Launched == kno + Len(stream)

\* the host is inside run and its next step needs nothing from the device
HostCanStep == ENABLED (Run \/ LaunchMain \/ LaunchTail)

\* C11 as stated: every run call enqueues at least one and at most four
\* kernel launches on the stream, for every rowLen, nRows and alignment
C11_OneToFourLaunches == hostPc = "returned" => (Launched >= 1 /\ Launched <= 4)

\* C11 amended: every run call enqueues at most two kernel launches on the
\* stream (the main kernel, then the boundary kernel), none exactly when the
\* matrix is empty and in is aligned to VecBytes, and run never waits for a
\* kernel: each of its steps can be taken whatever the stream has executed
C11_AtMostTwoLaunches ==
  /\ hostPc = "returned" =>
        /\ Launched <= 2
        /\ (Launched = 0) <=> (totalLen = 0 /\ desc.alignedOff = 0)
  /\ hostPc /= "returned" => HostCanStep

\* run has returned with two kernels enqueued and none of them started
C11_Witness == hostPc = "returned" /\ Len(stream) = 2 /\ kno = 0

\* the body [alignedOff, alignedEnd) has been stored by the first kernel
BodyStored ==
  \A p \in desc.alignedOff..(desc.alignedEnd - 1) :
     \E e \in wr : e[1] = outSlot + p /\ e[2] = 1

BoundaryRunning == kern /= NoKernel /\ ~IsMain(kern)

\* C12: when run launches a main and a boundary kernel, the main kernel is
\* ahead of the boundary kernel in the stream, and when the boundary kernel
\* has threads every thread of the main kernel has finished: the whole body
\* has been stored by the first kernel of the stream
C12_MainBeforeBoundary ==
  /\ \A i, j \in 1..Len(stream) :
        (IsMain(stream[i]) /\ ~IsMain(stream[j])) => i < j
  /\ (kern /= NoKernel /\ IsMain(kern)) => \A i \in 1..Len(stream) : ~IsMain(stream[i])
  /\ (BoundaryRunning /\ desc.alignedLen > 0) => (kno = 2 /\ BodyStored)

C12_Witness ==
  /\ BoundaryRunning /\ desc.alignedLen > 0
  /\ \E t \in DOMAIN threads : threads[t].pc = "store"

\* C19: the boundary kernel is launched as exactly two blocks of
\* max(WarpSize, VecBytes) threads, each thread processes at most one element,
\* block 0 exactly the head [0, alignedOff) and block 1 exactly the tail
\* [alignedEnd, totalLen), so every head and tail element is processed by
\* exactly one thread and nothing outside the matrix is touched
BoundaryWrites == { e \in wr : e[2] = kno }

C19_BoundaryHeadAndTail ==
  BoundaryRunning =>
     /\ kern.grid = 2
     /\ kern.bs = Max(WarpSize, sel.vecBytes)
     /\ \A t \in DOMAIN threads :
           Cardinality({ e \in BoundaryWrites : e[3] = t[1] /\ e[4] = t[2] }) <= 1
     /\ \A e \in BoundaryWrites :
           LET p == e[1] - outSlot
           IN /\ e[3] = 0 => (0 <= p /\ p < desc.alignedOff)
              /\ e[3] = 1 => (desc.alignedEnd <= p /\ p < desc.totalLen)
              /\ 0 <= p /\ p < desc.totalLen
              /\ Cardinality({ f \in BoundaryWrites : f[1] = e[1] }) = 1
     /\ AllDone =>
           \A p \in (0..(desc.alignedOff - 1)) \cup (desc.alignedEnd..(desc.totalLen - 1)) :
              \E e \in BoundaryWrites : e[1] = outSlot + p

\* C13: an error check follows each launch; when the main launch reports an
\* error run fails at once: the launch is not retried and the boundary kernel
\* is never enqueued (nothing is in the stream, nothing was ever started),
\* and a failed run never becomes a returned one
C13_MainLaunchErrorIsFatal ==
  /\ [](hostPc = "abortedMain" => (stream = <<>> /\ kno = 0 /\ kern = NoKernel))
  /\ [][(hostPc \in Aborted) => (hostPc' \in Aborted)]_vars

C13_Witness == hostPc = "abortedMain" /\ desc.alignedLen < desc.totalLen

\* C14: when run fails at one of its error checks (occupancy query, main
\* launch, boundary launch) no element of out has been or will be modified
\* by a kernel that call enqueued
C14_NoPartialResults == hostPc \in Aborted => (wr = {} /\ Launched = 0)

\* C16: in the vectorRows main kernel every element a thread processes, at
\* flat index p in any of its grid-stride iterations, is combined with the
\* element of the register chunk the thread loaded once before the loop, and
\* that element is vec[p mod rowLen]
C16_SameRowOffset ==
  \A i \in RowsMainLaunches :
     LET k == stream[i]
     IN \A blk \in 0..(k.grid - 1), tid \in 0..(k.bs - 1) :
          LET th == RowsMainThread(k, blk, tid)
          IN \A p \in ChunkStarts(th), e \in 1..k.ve :
                th.args[e] = (p + e - 1) % k.rowLen

\* a grid of several passes whose blocks start at different row offsets,
\* behind an unaligned head
C16_Witness ==
  \E i \in RowsMainLaunches :
     LET k == stream[i]
     IN /\ 2 * k.grid * k.bs * k.ve < k.len
        /\ (k.bs * k.ve) % k.rowLen /= 0
        /\ k.arrOffset > 0

\* C17: whenever vectorCols applies op to the element at flat index p of the
\* matrix, the tracked pair is rowDiv = p div rowLen, rowMod = p mod rowLen
\* and the cached args are vecs[rowDiv], for every rowLen >= 1
ColsLaunches == { i \in 1..Len(stream) : ~IsRows(stream[i]) }

TrackedRight(p, tr) ==
  (0 <= p /\ p < totalLen) =>
     tr = [rowDiv |-> p \div cfg.rowLen, rowMod |-> p % cfg.rowLen,
           args |-> ReadArgs(p \div cfg.rowLen)]

C17_RowTracking ==
  \A i \in ColsLaunches :
     LET k == stream[i]
     IN \A blk \in 0..(k.grid - 1), tid \in 0..(k.bs - 1) :
          \A x \in ColsLoop([ThreadInit(k, blk, tid) EXCEPT !.v = [e \in 1..k.ve |-> Junk]],
                            k.ve, k.rowLen) :
             TrackedRight(x[1], x[2])

\* a main kernel whose threads run several warp-stride iterations over rows
\* shorter than a wide chunk
C17_Witness ==
  \E i \in ColsLaunches :
     LET k == stream[i]
     IN /\ k.kind = "colsMain" /\ k.ept > k.ve
        /\ 1 < k.rowLen /\ k.rowLen < k.ve
        /\ k.arrOffset > 0

\* C18: the vectorCols main kernel processes every wide chunk of the body
\* [alignedOff, alignedEnd) exactly once and touches no index outside it
ColsMainLaunches == { i \in 1..Len(stream) : stream[i].kind = "colsMain" }

C18_BodyChunksOnce ==
  \A i \in ColsMainLaunches :
     LET k == stream[i]
         work == UNION { { <<blk, tid, p>> : p \in ChunkStarts(ColsMainThread(k, blk, tid)) } :
                           blk \in 0..(k.grid - 1), tid \in 0..(k.bs - 1) }
     IN /\ { w[3] : w \in work } =
             { desc.alignedOff + c * k.ve : c \in 0..((desc.alignedLen \div k.ve) - 1) }
        /\ Cardinality(work) = desc.alignedLen \div k.ve
        /\ desc.alignedOff + desc.alignedLen = desc.alignedEnd

\* the grid is capped by the occupancy target, so each thread has several
\* chunks, and the body starts behind an unaligned head
C18_Witness ==
  \E i \in ColsMainLaunches :
     LET k == stream[i]
     IN /\ k.grid = getOptimalGridSize(k.bs, cfg.smCount, cfg.maxBlockSize)
        /\ k.ept > k.ve
        /\ k.arrOffset > 0
        /\ k.len % (k.grid * k.bs * k.ve) /= 0

\* C15: every thread of every kernel launched by run terminates, for every
\* rowLen >= 0, nRows >= 0 and alignment for which a kernel is launched; for
\* the threads of a vectorRows kernel: each leaves every loadVec it enters
C15_ThreadsTerminate == (block /= NoBlock) ~> LanesReturned

\* a gathered chunk holds only what was stored for the same call
GatheredAfterStored ==
  \A t \in DOMAIN lanes :
     \A c \in 1..Len(lanes[t].out) :
        /\ \A e \in 1..block.ve : lanes[t].out[c][e].vec = c
        /\ \A u \in DOMAIN lanes : Arrived(u, c)

\* C20: in loadVec, under every interleaving of the threads of a block, a
\* thread reads a staging slot only after the thread responsible for it has
\* written it (all scatter writes precede the barrier, every gather read
\* follows it), and all threads of the block reach the barrier
C20_BarrierOrdersStaging ==
  /\ []GatheredAfterStored
  /\ (block /= NoBlock) ~> (\A u \in DOMAIN lanes : Arrived(u, 1))

\* thread t is about to store into a slot that thread u has yet to gather for
\* an earlier vector
OverwritesUnread(t, u) ==
  LET l == lanes[t]
  IN /\ l.pc = "scatter"
     /\ l.k < block.workSize
     /\ \E c \in 1..(l.call - 1) :
           /\ Len(lanes[u].out) < c
           /\ WorkOffset(l.call, block.workSize) + l.k \in GatherSlots(u, c)

\* C21: in the vectorRows kernels with any number of vector arguments, three
\* or more included, no thread overwrites a shared-memory slot that another
\* thread of the block has yet to read for an earlier vector, under every
\* interleaving of the threads of the block
C21_NoOverwriteBeforeRead ==
  \A t \in DOMAIN lanes : \A u \in DOMAIN lanes \ {t} : ~OverwritesUnread(t, u)

\* a thread stores the third vector into the buffer of the first one, which
\* another thread has gathered
C21_Witness ==
  /\ block /= NoBlock
  /\ \E t \in DOMAIN lanes : \E u \in DOMAIN lanes \ {t} :
        /\ lanes[t].pc = "scatter" /\ lanes[t].call = 3
        /\ lanes[t].k < block.workSize
        /\ Len(lanes[u].out) >= 1
        /\ WorkOffset(3, block.workSize) + lanes[t].k \in GatherSlots(u, 1)

\* C22: loadVec returns to thread t a chunk whose k-th element is
\* p[(blockOffset + t*VecElems + k) mod rowLen], for every blockOffset in
\* [0, rowLen) and every rowLen >= 1, also when rowLen is smaller than
\* BlockSize*VecElems and the index wraps around the vector several times
C22_LoadVecChunk ==
  \A t \in DOMAIN lanes :
     \A c \in 1..Len(lanes[t].out) :
        \A e \in 1..block.ve :
           (block.rowLen >= 1 /\ block.blockOffset \in 0..(block.rowLen - 1))
             => lanes[t].out[c][e].idx
                  = (block.blockOffset + t * block.ve + (e - 1)) % block.rowLen

\* the last thread of a block of wide chunks has its chunk, from a vector
\* that is many times shorter than the block's slice
C22_Witness ==
  /\ block /= NoBlock
  /\ block.ve = 4 /\ block.rowLen = StagingMaxRowLen /\ block.blockOffset > 0
  /\ Len(lanes[BlockSize - 1].out) >= 1

\* what output[c] is to hold: every element of column c once
ColumnSum(c) ==
  [elems |-> IF cfg.rowMajor THEN { r * cfg.D + c : r \in 0..(cfg.N - 1) }
             ELSE { c * cfg.N + i : i \in 0..(cfg.N - 1) },
   dup |-> FALSE]

\* C23: stats::detail::sum, for every D >= 1 and N >= 1 and every
\* interleaving of the atomic additions: after completion output[c] is the
\* sum of column c (input[r*D + c] over r for row-major input, input[c*N + i]
\* over i for column-major input), each element accumulated exactly once
C23_SumOfColumns ==
  SumCompleted => \A c \in 0..(cfg.D - 1) : mem[c] = ColumnSum(c)

\* C24: sumKernelRowMajor never reads or atomically updates mu at an index
\* >= D, also in the last column block when D is not a multiple of ColsPerBlk
C24_MuWithinD ==
  (kern /= NoKernel /\ kern.kind = "rowMajor") => \A c \in wr : c >= 0 /\ c < cfg.D

\* C25: in the row-major path the zero-initialisation of output is ordered
\* before every atomic accumulation into output by the kernel, for every
\* stream the caller may pass, a non-blocking stream included
C25_MemsetBeforeAccumulation ==
  (cfg.rowMajor /\ wr /= {}) => (hostPc = "returned" /\ stream.legacy = <<>>)

\* what lstsqEig enqueues on its worker streams
LstsqOps ==
  { Op(n) : n \in {"alloc", "gemmCovA", "gemvAb", "eigDC", "matrixVectorOp", "gemmInv",
                    "gemvW"} }

\* C26: in lstsqEig, in every stream configuration, the gemv that writes Ab
\* on multAbStream is ordered after the workset allocation on mainStream,
\* and the final gemv on mainStream, which reads Ab and the inverted
\* covariance, is ordered after the gemv that writes Ab
C26_AbOrdered ==
  /\ Op("gemvAb") \in wr => Op("alloc") \in wr
  /\ Op("gemvW") \in wr => {Op("gemvAb"), Op("gemmInv")} \subseteq wr

\* both configurations: two distinct worker streams, and one stream
C26_Witness ==
  /\ Op("gemvW") \in wr
  /\ sel.concurrent /\ sel.mainStream /= sel.multAbStream

\* C27: when lstsqEig returns, every operation it enqueued on mainStream or
\* multAbStream, the gemv that writes w included, is ordered before any
\* operation subsequently enqueued on the caller's stream, whichever streams
\* were selected
C27_DoneBeforeCaller == Op("after") \in wr => LstsqOps \subseteq wr

\* the caller's next operation has run after a call that moved mainStream to
\* a stream of the pool
C27_Witness == Op("after") \in wr /\ sel.mainStream /= cfg.stream

\* C28: every operation lstsqEig enqueues that reads A or b is ordered after
\* all work enqueued on the caller's stream before the call, in every branch
\* of the stream selection, also where mainStream is replaced by a stream
\* of the pool
C28_InputsReady == (wr \cap {Op("gemmCovA"), Op("gemvAb")} /= {}) => Op("before") \in wr

\* C29: the in-place square transpose, for every n >= 0 and every
\* interleaving of the n*n iterations: no element is read or written by two
\* different iterations, on completion the element at (i, j) holds the
\* original element at (j, i), and applying it twice restores the matrix
C29_InPlaceTranspose ==
  /\ \A a \in rd \cup wr : \A b \in rd \cup wr :
        (a[1] = b[1] /\ a[3] = b[3]) => a[2] = b[2]
  /\ TransposedTimes(1) =>
        \A i \in 0..(cfg.n - 1) : \A j \in 0..(cfg.n - 1) :
           Value(i * cfg.n + j) = j * cfg.n + i
  /\ TransposedTimes(2) =>
        \A i \in 0..(cfg.n - 1) : \A j \in 0..(cfg.n - 1) :
           Value(i * cfg.n + j) = i * cfg.n + j

\* a compare-and-swap of thread t fails in this step
CasFails(t) ==
  threads[t].pc = "cas" /\ threads'[t].pc = "cas" /\ threads'[t].failed > threads[t].failed

\* C30: concurrent calls of myAtomicMin, myAtomicMax or myAtomicReduce (with
\* an associative and commutative op) on one address: under every
\* interleaving no update is lost (once all calls have returned *address is
\* the min, max or fold of the initial value and all vals), a compare-and-swap
\* fails only when another thread's has succeeded since the failing thread
\* read the value, and all calls return
C30_NoLostUpdate ==
  /\ [](AllReturned => mem = Folded(AtomicThreads))
  /\ [][\A t \in 1..AtomicThreads : CasFails(t) => kno > threads[t].seen]_vars
  /\ <>AllReturned

\* all calls have returned and one of them had to retry
C30_Witness ==
  /\ AllReturned
  /\ \E t \in 1..AtomicThreads : threads[t].failed > 0
  /\ mem /= cfg.init

====
